---- MODULE Spec2Model ----
(***************************************************************************)
(* Model of rtc-rs: a driver for the DS3231 real-time clock (src/lib.rs)   *)
(* and its command line (src/main.rs).                                     *)
(*                                                                         *)
(* The chip is the only state that outlives a call: a bank of 8-bit        *)
(* registers behind the I2C transport.  The driver object holds only its   *)
(* start_year.  Every public operation is one action; the pure register    *)
(* codec is a set of operators computed as the Rust code computes them,    *)
(* with u8 arithmetic kept at its width.                                   *)
(***************************************************************************)
EXTENDS Integers, Sequences

VARIABLES
    start_year,  \* RTC.start_year
    chip,        \* the DS3231 register bank, address -> byte
    op,          \* the operation that ran last
    arg,         \* its input
    ret,         \* its result
    bus          \* the transport transactions it issued, in order

vars == <<start_year, chip, op, arg, ret, bus>>

(***************************************************************************)
(* Constants of src/lib.rs and src/main.rs                                 *)
(***************************************************************************)
I2C_ADDRESS == 104
NUM_CLOCK_AND_CALENDAR_REGS == 7
REG_SECONDS == 0
REG_MINUTES == 1
REG_HOURS == 2
REG_DAY == 3
REG_DATE == 4
REG_MONTH_CENTURY == 5
REG_YEAR == 6
HOURS_MASK == 63
MONTH_MASK == 31
CLOCK_TOGGLE_BIT == 6
CENTURY_BIT == 7
NUM_TEMP_REGS == 2
REG_TEMPS == 17
TEMP_LSB_BIT == 6
DEFAULT_START_YEAR == 2000

\* Largest value of a u8, the type of every register and calendar field.
U8_MAX == 255
\* The last register the driver accesses; the bank modelled is 0 .. LAST_REG.
LAST_REG == REG_TEMPS + NUM_TEMP_REGS - 1

(***************************************************************************)
(* Bounds of the model                                                     *)
(***************************************************************************)
\* How far around each edge of a field's valid range set_date inputs reach.
FieldSpan == 1
\* How many codec functions are applied one after the other to an input.
MaxChain == 2

(***************************************************************************)
(* u8 bit operations of Rust: x & y, x | y, x << n, x >> n                 *)
(***************************************************************************)
Pow2(n) == 2 ^ n

Bit(x, i) == (x \div Pow2(i)) % 2

\* x & y and x | y, bit by bit.
AndBits(x, y) ==
    LET b(i) == IF Bit(x, i) = 1 /\ Bit(y, i) = 1 THEN Pow2(i) ELSE 0
    IN  b(0) + b(1) + b(2) + b(3) + b(4) + b(5) + b(6) + b(7)

OrBits(x, y) ==
    LET b(i) == IF Bit(x, i) = 1 \/ Bit(y, i) = 1 THEN Pow2(i) ELSE 0
    IN  b(0) + b(1) + b(2) + b(3) + b(4) + b(5) + b(6) + b(7)

\* Both are tabulated once over all pairs of bytes, entry [x + 1][y + 1], so
\* that an application is a lookup.
BitAndTable ==
    <<>> \o [i \in 1 .. U8_MAX + 1 |->
                <<>> \o [j \in 1 .. U8_MAX + 1 |-> AndBits(i - 1, j - 1)]]

BitOrTable ==
    <<>> \o [i \in 1 .. U8_MAX + 1 |->
                <<>> \o [j \in 1 .. U8_MAX + 1 |-> OrBits(i - 1, j - 1)]]

BitAnd(x, y) == BitAndTable[x + 1][y + 1]

BitOr(x, y) == BitOrTable[x + 1][y + 1]

\* x << n on a u8: bits shifted past bit 7 are dropped, no overflow check.
Shl(x, n) == (x * Pow2(n)) % (U8_MAX + 1)

Shr(x, n) == x \div Pow2(n)

(***************************************************************************)
(* Binary coded decimal helpers, lib.rs 258-264                            *)
(***************************************************************************)
bcd_to_dec(bcd) == Shr(bcd, 4) * 10 + BitAnd(bcd, 15)

\* Faulty variant of dec_to_bcd: the ones digit taken as dec % 16.
dec_to_bcd_mod16(dec) == BitOr(Shl(dec \div 10, 4), dec % 16)

dec_to_bcd(dec) == BitOr(Shl(dec \div 10, 4), dec % 10)

(***************************************************************************)
(* Conversions between normal values and register values, lib.rs 234-253   *)
(***************************************************************************)
\* A panic of the thread, and a value returned.
Panic == [kind |-> "panic"]

Value(n) == [kind |-> "Ok", val |-> n]

\* x + y on u8: on overflow Rust panics when the build has overflow checks
\* (debug profile) and wraps when it has none (release profile).
AddU8(x, y, overflow_checks) ==
    IF x + y <= U8_MAX THEN Value(x + y)
    ELSE IF overflow_checks THEN Panic
    ELSE Value((x + y) % (U8_MAX + 1))

calculate_normal_years(reg_years, reg_month_century, overflow_checks) ==
    IF BitAnd(reg_month_century, Shl(1, CENTURY_BIT)) # 0
    THEN AddU8(bcd_to_dec(reg_years), 100, overflow_checks)
    ELSE Value(bcd_to_dec(reg_years))

\* Faulty variant of calculate_reg_hours: the 24-hour bit left out.
calculate_reg_hours_no_toggle(normal_hours) == dec_to_bcd(normal_hours)

calculate_reg_hours(normal_hours) ==
    BitOr(Shl(1, CLOCK_TOGGLE_BIT), dec_to_bcd(normal_hours))

calculate_reg_month_century(normal_month, normal_year, start) ==
    LET century == IF normal_year - start > 100 THEN 1 ELSE 0
    IN  BitOr(Shl(century, CENTURY_BIT), dec_to_bcd(normal_month))

calculate_reg_year(normal_year, start) ==
    dec_to_bcd((normal_year - start) % 100)

(***************************************************************************)
(* The transport: block reads and writes of the chip's registers           *)
(***************************************************************************)
Regs == 0 .. LAST_REG

\* The bytes a block read of len registers from address reg returns.
block_read(c, reg, len) == [i \in 0 .. len - 1 |-> c[reg + i]]

\* The register bank after a block write of buffer at address reg.
block_write(c, reg, buffer, len) ==
    [a \in Regs |-> IF a >= reg /\ a < reg + len THEN buffer[a - reg] ELSE c[a]]

\* One transaction as the transport saw it; ok is whether it succeeded.
Transaction(kind, reg, len, ok) == [kind |-> kind, reg |-> reg, len |-> len, ok |-> ok]

IoError(kind, msg) == [kind |-> "Err", error |-> kind, msg |-> msg]

(***************************************************************************)
(* RTC::fetch_date, lib.rs 125-147                                         *)
(***************************************************************************)
\* The hours of line 134: the clock mode bits masked off, then BCD decoded.
normal_hours(reg_hours) == bcd_to_dec(BitAnd(reg_hours, HOURS_MASK))

\* Faulty variant of decode_date: hours decoded without masking the mode bits.
decode_date_unmasked_hours(read_buffer, start, overflow_checks) ==
    LET years == calculate_normal_years(read_buffer[REG_YEAR],
                                        read_buffer[REG_MONTH_CENTURY],
                                        overflow_checks)
    IN  IF years.kind = "panic" THEN Panic
        ELSE [kind    |-> "Ok",
              seconds |-> bcd_to_dec(read_buffer[REG_SECONDS]),
              minutes |-> bcd_to_dec(read_buffer[REG_MINUTES]),
              hours   |-> bcd_to_dec(read_buffer[REG_HOURS]),
              day     |-> bcd_to_dec(read_buffer[REG_DAY]),
              date    |-> bcd_to_dec(read_buffer[REG_DATE]),
              month   |-> bcd_to_dec(BitAnd(read_buffer[REG_MONTH_CENTURY], MONTH_MASK)),
              year    |-> years.val + start]

\* The Ok arm, lines 130-143: the 7 bytes read, decoded into an RTCDate.
decode_date(read_buffer, start, overflow_checks) ==
    LET years == calculate_normal_years(read_buffer[REG_YEAR],
                                        read_buffer[REG_MONTH_CENTURY],
                                        overflow_checks)
    IN  IF years.kind = "panic" THEN Panic
        ELSE [kind    |-> "Ok",
              seconds |-> bcd_to_dec(read_buffer[REG_SECONDS]),
              minutes |-> bcd_to_dec(read_buffer[REG_MINUTES]),
              hours   |-> normal_hours(read_buffer[REG_HOURS]),
              day     |-> bcd_to_dec(read_buffer[REG_DAY]),
              date    |-> bcd_to_dec(read_buffer[REG_DATE]),
              month   |-> bcd_to_dec(BitAnd(read_buffer[REG_MONTH_CENTURY], MONTH_MASK)),
              year    |-> years.val + start]

\* Faulty variant of fetch_date: a second read issued after a failed one.
fetch_date_retry(c, start, xfer_ok, overflow_checks) ==
    LET read == Transaction("block_read", REG_SECONDS, NUM_CLOCK_AND_CALENDAR_REGS, xfer_ok)
    IN  IF xfer_ok
        THEN [ret |-> decode_date(block_read(c, REG_SECONDS, NUM_CLOCK_AND_CALENDAR_REGS),
                                  start, overflow_checks),
              bus |-> <<read>>]
        ELSE [ret |-> IoError("Other", "i2c"), bus |-> <<read, read>>]

fetch_date(c, start, xfer_ok, overflow_checks) ==
    LET read == Transaction("block_read", REG_SECONDS, NUM_CLOCK_AND_CALENDAR_REGS, xfer_ok)
    IN  IF xfer_ok
        THEN [ret |-> decode_date(block_read(c, REG_SECONDS, NUM_CLOCK_AND_CALENDAR_REGS),
                                  start, overflow_checks),
              bus |-> <<read>>]
        ELSE [ret |-> IoError("Other", "i2c"), bus |-> <<read>>]

(***************************************************************************)
(* RTC::set_date, lib.rs 149-209                                           *)
(***************************************************************************)
\* Faulty variant of check_date_validity: the lower bound of day forgotten.
check_date_validity_no_day_floor(rtc_date, start) ==
    IF rtc_date.seconds > 59 THEN "seconds must be between 0 and 59"
    ELSE IF rtc_date.minutes > 59 THEN "minutes must be between 0 and 59"
    ELSE IF rtc_date.hours > 23 THEN "hours must be between 0 and 23"
    ELSE IF rtc_date.day > 7 THEN "day must be between 1 and 7"
    ELSE IF rtc_date.date < 1 \/ rtc_date.date > 31 THEN "date must be between 1 and 31"
    ELSE IF rtc_date.month < 1 \/ rtc_date.month > 12 THEN "month must be between 1 and 12"
    ELSE IF rtc_date.year < start \/ rtc_date.year - start > 199
         THEN "year must be between start_year and start_year + 199"
    ELSE ""

\* The date validity check, lines 152-192: the message of the first check
\* that fails, "" when the date is valid.
check_date_validity(rtc_date, start) ==
    IF rtc_date.seconds > 59 THEN "seconds must be between 0 and 59"
    ELSE IF rtc_date.minutes > 59 THEN "minutes must be between 0 and 59"
    ELSE IF rtc_date.hours > 23 THEN "hours must be between 0 and 23"
    ELSE IF rtc_date.day < 1 \/ rtc_date.day > 7 THEN "day must be between 1 and 7"
    ELSE IF rtc_date.date < 1 \/ rtc_date.date > 31 THEN "date must be between 1 and 31"
    ELSE IF rtc_date.month < 1 \/ rtc_date.month > 12 THEN "month must be between 1 and 12"
    ELSE IF rtc_date.year < start \/ rtc_date.year - start > 199
         THEN "year must be between start_year and start_year + 199"
    ELSE ""

\* The write buffer, lines 194-202.
encode_date(rtc_date, start) ==
    [i \in 0 .. NUM_CLOCK_AND_CALENDAR_REGS - 1 |->
        CASE i = REG_SECONDS -> dec_to_bcd(rtc_date.seconds)
          [] i = REG_MINUTES -> dec_to_bcd(rtc_date.minutes)
          [] i = REG_HOURS -> calculate_reg_hours(rtc_date.hours)
          [] i = REG_DAY -> dec_to_bcd(rtc_date.day)
          [] i = REG_DATE -> dec_to_bcd(rtc_date.date)
          [] i = REG_MONTH_CENTURY ->
                calculate_reg_month_century(rtc_date.month, rtc_date.year, start)
          [] i = REG_YEAR -> calculate_reg_year(rtc_date.year, start)]

\* A failed block write is taken to have transferred nothing.
set_date(c, start, rtc_date, xfer_ok) ==
    LET invalid == check_date_validity(rtc_date, start)
        write == Transaction("block_write", REG_SECONDS, NUM_CLOCK_AND_CALENDAR_REGS, xfer_ok)
    IN  IF invalid # ""
        THEN [ret |-> IoError("InvalidInput", invalid), bus |-> <<>>, chip |-> c]
        ELSE IF xfer_ok
        THEN [ret |-> [kind |-> "Ok"],
              bus |-> <<write>>,
              chip |-> block_write(c, REG_SECONDS, encode_date(rtc_date, start),
                                   NUM_CLOCK_AND_CALENDAR_REGS)]
        ELSE [ret |-> IoError("Other", "i2c"), bus |-> <<write>>, chip |-> c]

(***************************************************************************)
(* RTC::fetch_temperature, lib.rs 211-230                                  *)
(***************************************************************************)
\* byte as i8
AsI8(byte) == IF byte >= 128 THEN byte - 256 ELSE byte

\* Faulty variant of temperature: the integer register read as unsigned.
temperature_unsigned(read_buffer) ==
    LET integer == read_buffer[0]
        decimal == AsI8(Shr(read_buffer[1], TEMP_LSB_BIT))
    IN  CASE decimal = 0 -> 4 * integer + 0
          [] decimal = 1 -> 4 * integer + 1
          [] decimal = 2 -> 4 * integer + 2
          [] decimal = 3 -> 4 * integer + 3
          [] OTHER -> 4 * integer

\* The Ok arm, lines 216-226.  The f32 result is a whole number of quarter
\* degrees, which f32 holds exactly; it is kept as that number of quarters.
temperature(read_buffer) ==
    LET integer == AsI8(read_buffer[0])
        decimal == AsI8(Shr(read_buffer[1], TEMP_LSB_BIT))
    IN  CASE decimal = 0 -> 4 * integer + 0
          [] decimal = 1 -> 4 * integer + 1
          [] decimal = 2 -> 4 * integer + 2
          [] decimal = 3 -> 4 * integer + 3
          [] OTHER -> 4 * integer

fetch_temperature(c, xfer_ok) ==
    LET read == Transaction("block_read", REG_TEMPS, NUM_TEMP_REGS, xfer_ok)
    IN  IF xfer_ok
        THEN [ret |-> [kind |-> "Ok",
                       quarters |-> temperature(block_read(c, REG_TEMPS, NUM_TEMP_REGS))],
              bus |-> <<read>>]
        ELSE [ret |-> IoError("Other", "i2c"), bus |-> <<read>>]

(***************************************************************************)
(* Display for RTCDate, lib.rs 28-106, and the get command, main.rs 16-18  *)
(***************************************************************************)
DayNames == <<"Mon", "Tue", "Wed", "Thu", "Fri", "Sat", "Sun">>

MonthNames == <<"Jan", "Feb", "Mar", "Apr", "May", "Jun",
                "Jul", "Aug", "Sep", "Oct", "Nov", "Dec">>

\* Day::from_u8: the variant, or a panic on any other number.
Day_from_u8(day) ==
    IF day >= 1 /\ day <= 7 THEN [kind |-> "Ok", name |-> DayNames[day]] ELSE Panic

\* Month::from_u8
Month_from_u8(month) ==
    IF month >= 1 /\ month <= 12 THEN [kind |-> "Ok", name |-> MonthNames[month]] ELSE Panic

\* fmt: the line written, or the panic of an argument's evaluation.
fmt(rtc_date) ==
    LET timezone == "CET"
        d == Day_from_u8(rtc_date.day)
        m == Month_from_u8(rtc_date.month)
    IN  IF d.kind = "panic" \/ m.kind = "panic" THEN Panic
        ELSE [kind |-> "Ok",
              stdout |-> <<d.name, rtc_date.date, m.name, rtc_date.hours,
                           rtc_date.minutes, rtc_date.seconds, timezone, rtc_date.year>>]

\* The get arm of main: fetch_date()? and then println of the date.
get(c, start, xfer_ok, overflow_checks) ==
    LET fetched == fetch_date(c, start, xfer_ok, overflow_checks)
    IN  IF fetched.ret.kind = "Ok"
        THEN [ret |-> fmt(fetched.ret), bus |-> fetched.bus]
        ELSE fetched

(***************************************************************************)
(* Chip contents and inputs the model draws from                           *)
(***************************************************************************)
\* RTC::new is given any start year; main gives DEFAULT_START_YEAR.
StartYears == {1900, DEFAULT_START_YEAR}

Bytes == 0 .. U8_MAX

\* A register bank holding the calendar bytes cal (7 of them) and the two
\* temperature bytes; the alarm, control and status registers are never
\* accessed by the driver and are left at 0.
ChipOf(cal, msb, lsb) ==
    [a \in Regs |->
        IF a < NUM_CLOCK_AND_CALENDAR_REGS THEN cal[a + 1]
        ELSE IF a = REG_TEMPS THEN msb
        ELSE IF a = REG_TEMPS + 1 THEN lsb
        ELSE 0]

\* The chip after power was lost: 00:00:00, day 1, 01/01/00; 25.25 degrees.
PowerOnChip == ChipOf(<<0, 0, 0, 1, 1, 1, 0>>, 25, 64)

\* 12:30:45, day 3, the 15th of month 9, year 24; 25.25 degrees.
ExampleChip == ChipOf(<<69, 48, 146, 3, 21, 9, 36>>, 25, 64)

\* Calendar registers another bus master left at zero: day 0 and month 0.
ZeroChip == ChipOf(<<0, 0, 0, 0, 0, 0, 0>>, 25, 64)

\* Calendar registers that read back as all ones.
OnesChip == ChipOf(<<255, 255, 255, 255, 255, 255, 255>>, 25, 64)

ChipWith(c, reg, byte) == [c EXCEPT ![reg] = byte]

InitChips == {PowerOnChip, ExampleChip, ZeroChip, OnesChip}

\* Values of a u8 field within FieldSpan of an edge of its valid range
\* lo .. hi, and the largest u8.
Near(lo, hi) ==
    {x \in Bytes : \/ x + FieldSpan >= lo /\ x <= lo + FieldSpan
                   \/ x + FieldSpan >= hi /\ x <= hi + FieldSpan} \cup {U8_MAX}

\* Year offsets around the edges of the two century slots, and their middles.
YearOffsets ==
    {o \in (0 - FieldSpan) .. (199 + FieldSpan) :
        \/ o <= FieldSpan
        \/ o >= 99 - FieldSpan /\ o <= 101 + FieldSpan
        \/ o >= 199 - FieldSpan} \cup {50, 150}

\* Dates relative to the start year: year holds year - start_year.  The
\* base date with one field replaced, and the dates whose fields are all at
\* the low or all at the high edge.
RelativeDates ==
    LET base == [seconds |-> 45, minutes |-> 30, hours |-> 12, day |-> 3,
                 date |-> 15, month |-> 9, year |-> 24]
    IN  {[base EXCEPT !.seconds = x] : x \in Near(0, 59)}
        \cup {[base EXCEPT !.minutes = x] : x \in Near(0, 59)}
        \cup {[base EXCEPT !.hours = x] : x \in Near(0, 23)}
        \cup {[base EXCEPT !.day = x] : x \in Near(1, 7)}
        \cup {[base EXCEPT !.date = x] : x \in Near(1, 31)}
        \cup {[base EXCEPT !.month = x] : x \in Near(1, 12)}
        \cup {[base EXCEPT !.year = o] : o \in YearOffsets}
        \cup {[seconds |-> 0, minutes |-> 0, hours |-> 0, day |-> 1, date |-> 1,
               month |-> 1, year |-> 0],
              [seconds |-> 59, minutes |-> 59, hours |-> 23, day |-> 7, date |-> 31,
               month |-> 12, year |-> 199]}

\* The dates given to set_date by a caller of a driver with this start year.
DateSamples(start) == {[d EXCEPT !.year = start + d.year] : d \in RelativeDates}

NoArg == [kind |-> "none"]

(***************************************************************************)
(* The driver: state after RTC::new, and one action per operation          *)
(***************************************************************************)
\* RTC::new, lib.rs 115-123: the bus opened and the chip's address claimed.
new(y) ==
    [start_year |-> y,
     bus |-> <<[kind |-> "open"], [kind |-> "set_slave_address", address |-> I2C_ADDRESS]>>]

Init ==
    /\ \E y \in StartYears :
          /\ start_year = new(y).start_year
          /\ bus = new(y).bus
    /\ chip \in InitChips
    /\ op = "new"
    /\ arg = NoArg
    /\ ret = [kind |-> "Ok"]

FetchDate ==
    \E xfer_ok \in BOOLEAN, overflow_checks \in BOOLEAN :
        \E r \in {fetch_date(chip, start_year, xfer_ok, overflow_checks)} :
            /\ op' = "fetch_date"
            /\ arg' = NoArg
            /\ ret' = r.ret
            /\ bus' = r.bus
            /\ UNCHANGED <<start_year, chip>>

SetDate ==
    \E rtc_date \in DateSamples(start_year), xfer_ok \in BOOLEAN :
        \E r \in {set_date(chip, start_year, rtc_date, xfer_ok)} :
            /\ op' = "set_date"
            /\ arg' = rtc_date
            /\ ret' = r.ret
            /\ bus' = r.bus
            /\ chip' = r.chip
            /\ UNCHANGED start_year

FetchTemperature ==
    \E xfer_ok \in BOOLEAN :
        \E r \in {fetch_temperature(chip, xfer_ok)} :
            /\ op' = "fetch_temperature"
            /\ arg' = NoArg
            /\ ret' = r.ret
            /\ bus' = r.bus
            /\ UNCHANGED <<start_year, chip>>

Get ==
    \E xfer_ok \in BOOLEAN, overflow_checks \in BOOLEAN :
        \E r \in {get(chip, start_year, xfer_ok, overflow_checks)} :
            /\ op' = "get"
            /\ arg' = NoArg
            /\ ret' = r.ret
            /\ bus' = r.bus
            /\ UNCHANGED <<start_year, chip>>

Next == FetchDate \/ SetDate \/ FetchTemperature \/ Get

Spec == Init /\ [][Next]_vars

(***************************************************************************)
(* The read operations over what the chip may hold                         *)
(***************************************************************************)
\* The example calendar with one register replaced by any byte, and with
\* any year register under either century bit.
CalendarChips ==
    {ChipWith(ExampleChip, reg, byte) :
        reg \in 0 .. NUM_CLOCK_AND_CALENDAR_REGS - 1, byte \in Bytes}
    \cup {ChipWith(ChipWith(ExampleChip, REG_MONTH_CENTURY, 128 + 9), REG_YEAR, byte) :
            byte \in Bytes}
    \cup InitChips

\* The example calendar with any whole-degree register under each fraction
\* code, and any fraction register under whole degrees of either sign.
TemperatureChips ==
    {ChipWith(ChipWith(ExampleChip, REG_TEMPS, msb), REG_TEMPS + 1, lsb) :
        msb \in Bytes, lsb \in {0, 64, 128, 192}}
    \cup {ChipWith(ChipWith(ExampleChip, REG_TEMPS, msb), REG_TEMPS + 1, lsb) :
            msb \in {0, 25, 127, 128, 255}, lsb \in Bytes}

InitChip ==
    /\ \/ /\ chip \in CalendarChips
          /\ \E y \in StartYears : start_year = new(y).start_year
       \/ /\ chip \in TemperatureChips
          /\ start_year = new(DEFAULT_START_YEAR).start_year
    /\ bus = new(start_year).bus
    /\ op = "new"
    /\ arg = NoArg
    /\ ret = [kind |-> "Ok"]

NextChip == FetchDate \/ FetchTemperature \/ Get

SpecChip == InitChip /\ [][NextChip]_vars

(***************************************************************************)
(* The byte codec functions applied to any u8, one after the other         *)
(***************************************************************************)
\* arg is the input, op the functions applied so far and ret the value they
\* gave; the driver and the chip take no part.
InitCodec ==
    /\ arg \in Bytes
    /\ op = <<>>
    /\ ret = Value(arg)
    /\ start_year = new(DEFAULT_START_YEAR).start_year
    /\ chip = PowerOnChip
    /\ bus = <<>>

Apply(name, result) ==
    /\ Len(op) < MaxChain
    /\ op' = Append(op, name)
    /\ ret' = Value(result)
    /\ UNCHANGED <<start_year, chip, arg, bus>>

DecToBcd == Apply("dec_to_bcd", dec_to_bcd(ret.val))

BcdToDec == Apply("bcd_to_dec", bcd_to_dec(ret.val))

CalculateRegHours == Apply("calculate_reg_hours", calculate_reg_hours(ret.val))

NormalHours == Apply("normal_hours", normal_hours(ret.val))

NextCodec == DecToBcd \/ BcdToDec \/ CalculateRegHours \/ NormalHours

SpecCodec == InitCodec /\ [][NextCodec]_vars

(***************************************************************************)
(* Properties                                                              *)
(***************************************************************************)
\* The ranges of a calendar value for a driver with base year base.
InRange(d, base) ==
    /\ d.seconds >= 0 /\ d.seconds <= 59
    /\ d.minutes >= 0 /\ d.minutes <= 59
    /\ d.hours >= 0 /\ d.hours <= 23
    /\ d.day >= 1 /\ d.day <= 7
    /\ d.date >= 1 /\ d.date <= 31
    /\ d.month >= 1 /\ d.month <= 12
    /\ d.year >= base /\ d.year - base <= 199

SameDate(r, d) ==
    /\ r.seconds = d.seconds
    /\ r.minutes = d.minutes
    /\ r.hours = d.hours
    /\ r.day = d.day
    /\ r.date = d.date
    /\ r.month = d.month
    /\ r.year = d.year

\* 10 * high nibble + low nibble
BcdValue(byte) == 10 * (byte \div 16) + (byte % 16)

ValidBcd(byte) == byte \div 16 <= 9 /\ byte % 16 <= 9

CenturyBitOf(c) == (c[5] \div 128) % 2

\* C1: a set_date of any in-range date that succeeds, followed by a
\* fetch_date whose read succeeds, returns that date in every field.
RoundTrip ==
    [][(/\ op = "set_date" /\ ret.kind = "Ok" /\ InRange(arg, start_year)
        /\ op' = "fetch_date" /\ bus'[1].ok)
       => (ret'.kind = "Ok" /\ SameDate(ret', arg))]_vars

\* C2: a set_date of a date with any field out of range returns InvalidInput,
\* issues no transport call and leaves the chip as it was; a block write is
\* issued only for a date that is in range.
ValidationBeforeBus ==
    [][op' = "set_date" =>
        /\ ~InRange(arg', start_year) =>
              /\ ret'.kind = "Err" /\ ret'.error = "InvalidInput"
              /\ bus' = <<>>
              /\ chip' = chip
        /\ bus' # <<>> => InRange(arg', start_year)]_vars

ValidationWitness ==
    /\ op = "set_date" /\ arg.day = 0 /\ arg.seconds = 45
    /\ ret.kind = "Err" /\ ret.error = "InvalidInput"
    /\ bus = <<>>
    /\ chip = ExampleChip

\* C3: set_date of year base + 100 writes a month register with bit 7 set,
\* of year base + 99 one with bit 7 clear, and a fetch_date after either
\* returns the year that was set.
CenturyFlag ==
    [][(op = "set_date" /\ ret.kind = "Ok") =>
        /\ arg.year = start_year + 100 => CenturyBitOf(chip) = 1
        /\ arg.year = start_year + 99 => CenturyBitOf(chip) = 0
        /\ (/\ arg.year \in {start_year + 99, start_year + 100}
            /\ op' = "fetch_date" /\ bus'[1].ok)
           => (ret'.kind = "Ok" /\ ret'.year = arg.year)]_vars

\* C4: fetch_date of any register image, when its read succeeds, returns a
\* date, with year = base + 10 * high nibble + low nibble of the year
\* register, + 100 when bit 7 of the month register is set, and the other
\* fields 10 * high nibble + low nibble of their masked registers.
DecodeTotal ==
    (op = "fetch_date" /\ bus[1].ok) =>
        /\ ret.kind = "Ok"
        /\ ret.year = start_year + BcdValue(chip[6]) + 100 * CenturyBitOf(chip)
        /\ ret.seconds = BcdValue(chip[0])
        /\ ret.minutes = BcdValue(chip[1])
        /\ ret.hours = BcdValue(chip[2] % 64)
        /\ ret.day = BcdValue(chip[3])
        /\ ret.date = BcdValue(chip[4])
        /\ ret.month = BcdValue(chip[5] % 32)

\* C5: the get command on any chip content from which fetch_date returns a
\* date ends in a printed line or an error, never in a panic.
DisplayNeverAborts ==
    (/\ op = "get"
     /\ BcdValue(chip[6]) + 100 * CenturyBitOf(chip) <= 255)
    => ret.kind \in {"Ok", "Err"}

\* C6: calculate_reg_hours of any hour 0..23 has bit 6 set and the BCD of the
\* hour in its low 6 bits; the hours decoded from a register are those of
\* its low 6 bits whatever bits 6 and 7 are, so decoding the encoded hour
\* gives the hour back.
HoursModeBit ==
    /\ (op = <<"calculate_reg_hours">> /\ arg <= 23) =>
          /\ (ret.val \div 64) % 2 = 1
          /\ ret.val % 64 = 16 * (arg \div 10) + (arg % 10)
    /\ op = <<"normal_hours">> => ret.val = BcdValue(arg % 64)
    /\ (op = <<"calculate_reg_hours", "normal_hours">> /\ arg <= 23) => ret.val = arg

HoursModeBitWitness ==
    op = <<"calculate_reg_hours", "normal_hours">> /\ arg = 23 /\ ret.val = 23

\* C7: fetch_temperature returns, in quarter degrees, 4 * s + (lsb >> 6) with
\* s the first register as a signed byte; the low 6 bits of the second
\* register play no part.
TemperatureDecode ==
    (op = "fetch_temperature" /\ bus[1].ok) =>
        /\ ret.kind = "Ok"
        /\ ret.quarters =
              4 * (IF chip[17] >= 128 THEN chip[17] - 256 ELSE chip[17])
              + (chip[18] \div 64)

TemperatureWitness ==
    /\ op = "fetch_temperature"
    /\ chip[17] = 255 /\ chip[18] = 192 + 63
    /\ ret.kind = "Ok" /\ ret.quarters = 0 - 1

\* C8: fetch_date of a register image of valid BCD digits returns the fields
\* of the layout: registers 0..6 are seconds, minutes, hours (low 6 bits),
\* day, date, month (low 5 bits) and year, with 100 years for bit 7 of the
\* month register.
DecodeLayout ==
    (/\ op = "fetch_date" /\ bus[1].ok
     /\ \A reg \in 0 .. 6 : ValidBcd(chip[reg])) =>
        /\ ret.kind = "Ok"
        /\ ret.seconds = BcdValue(chip[0])
        /\ ret.minutes = BcdValue(chip[1])
        /\ ret.hours = BcdValue(chip[2] % 64)
        /\ ret.day = BcdValue(chip[3])
        /\ ret.date = BcdValue(chip[4])
        /\ ret.month = BcdValue(chip[5] % 32)
        /\ ret.year = start_year + BcdValue(chip[6]) + 100 * CenturyBitOf(chip)

DecodeLayoutWitness ==
    /\ op = "fetch_date" /\ start_year = 2000
    /\ block_read(chip, 0, 7) = [i \in 0 .. 6 |-> <<69, 48, 146, 3, 21, 9, 36>>[i + 1]]
    /\ ret = [kind |-> "Ok", seconds |-> 45, minutes |-> 30, hours |-> 12, day |-> 3,
              date |-> 15, month |-> 9, year |-> 2024]

\* C9: dec_to_bcd of any d in 0..99 has the tens digit of d in its high
\* nibble and the ones digit in its low nibble, and bcd_to_dec of it is d.
BcdRoundTrip ==
    /\ (op = <<"dec_to_bcd">> /\ arg <= 99) =>
          /\ ret.val \div 16 = arg \div 10
          /\ ret.val % 16 = arg % 10
    /\ (op = <<"dec_to_bcd", "bcd_to_dec">> /\ arg <= 99) => ret.val = arg

BcdRoundTripWitness ==
    op = <<"dec_to_bcd", "bcd_to_dec">> /\ arg = 99 /\ ret.val = 99

\* C10: fetch_date, fetch_temperature and set_date of an in-range date each
\* issue exactly one transaction: a read of 7 registers at 0, a read of 2
\* registers at 17, a write of 7 registers at 0; when it fails the operation
\* returns an error with no further transaction, and the reads leave the
\* chip as it was.
OneTransaction ==
    [][/\ op' = "fetch_date" =>
            /\ Len(bus') = 1
            /\ bus'[1].kind = "block_read" /\ bus'[1].reg = 0 /\ bus'[1].len = 7
            /\ chip' = chip
       /\ op' = "fetch_temperature" =>
            /\ Len(bus') = 1
            /\ bus'[1].kind = "block_read" /\ bus'[1].reg = 17 /\ bus'[1].len = 2
            /\ chip' = chip
       /\ (op' = "set_date" /\ InRange(arg', start_year)) =>
            /\ Len(bus') = 1
            /\ bus'[1].kind = "block_write" /\ bus'[1].reg = 0 /\ bus'[1].len = 7
       /\ (op' \in {"fetch_date", "fetch_temperature", "set_date"} /\ bus' # <<>>) =>
            (~bus'[1].ok => ret'.kind = "Err" /\ ret'.error = "Other")]_vars

OneTransactionWitness ==
    /\ op = "fetch_date"
    /\ Len(bus) = 1 /\ ~bus[1].ok
    /\ ret.kind = "Err"

====
